---- MODULE Spec2Model ----
(***************************************************************************)
(* A model of the MiniMQTT client (src/adafruit_minimqtt.py): class MQTT,  *)
(* its module-level packet buffers, and the byte-stream transport it       *)
(* drives.  Every public method is one action; the retry loop of           *)
(* reconnect() is one action per iteration.                                *)
(*                                                                         *)
(* Conventions                                                             *)
(*   - bytes objects are sequences of integers 0..255;                     *)
(*   - Python's None is NoneVal when it stands for a str/bytes argument,   *)
(*     NoneRet when it is the return value of a method;                    *)
(*   - a method body is a chain of steps over a record of the object's     *)
(*     fields; once a step raises, the later steps leave the record alone  *)
(*     (the exception propagates to the caller);                           *)
(*   - wr, reads, closes and calls record what the last call handed to     *)
(*     sock.write(), how often it called sock.read() and sock.close(), and *)
(*     which subscription handlers it invoked.                             *)
(***************************************************************************)
EXTENDS Integers, Sequences, FiniteSets, TLC

(* ------------------------------------------------------------------ *)
(* Bounds of the model                                                *)
(* ------------------------------------------------------------------ *)

\* frames the broker delivers while one blocking call runs
MaxInFrames == 1
\* the packet-id counter is explored up to this many subscribe/unsubscribe calls
MaxPidSteps == 2
\* hard resets explored inside one reconnect() call
MaxResets == 1
\* the broker sends further frames to a call only while at most this many
\* bytes are still unread on the socket
MaxRxBacklog == 0
\* how often a registry key may have been popped and registered again
MaxFeedDepth == 2

(* ------------------------------------------------------------------ *)
(* Program constants                                                  *)
(* ------------------------------------------------------------------ *)

MQTT_MSG_MAX_SZ == 268435455
MQTT_MSG_SZ_LIM == 10000000
MQTT_PING_REQ == <<192>>
MQTT_PINGRESP == <<208>>
MQTT_DISCONNECT == <<224, 0>>
\* initial contents of the module-level bytearrays
MQTT_SUB_INIT == <<130, 0, 0, 0>>
MQTT_PUB_INIT == <<48, 0>>
MQTT_CON_INIT == <<16, 0, 0>>
\* b"\x04MQTT\x04\x02\0\0"
MQTT_CON_HEADER_INIT == <<4, 77, 81, 84, 84, 4, 2, 0, 0>>
\* keys of CONNACK_ERRORS
CONNACK_ERRORS == 1..5
\* the retry bound written in reconnect()'s loop
RECONNECT_LIMIT == 30
\* the stride of the packet-id counter in subscribe()/unsubscribe()
PID_STRIDE == 11

NoneVal == <<-1>>
NoneRet == -1

(* ------------------------------------------------------------------ *)
(* Integer helpers: Python's &, |, >>, struct.pack                    *)
(* ------------------------------------------------------------------ *)

Min(a, b) == IF a < b THEN a ELSE b

RECURSIVE BitAnd(_, _)
BitAnd(a, b) ==
    IF a = 0 \/ b = 0 THEN 0
    ELSE (IF a % 2 = 1 /\ b % 2 = 1 THEN 1 ELSE 0) + 2 * BitAnd(a \div 2, b \div 2)

RECURSIVE BitOr(_, _)
BitOr(a, b) ==
    IF a = 0 THEN b
    ELSE IF b = 0 THEN a
    ELSE (IF a % 2 = 1 \/ b % 2 = 1 THEN 1 ELSE 0) + 2 * BitOr(a \div 2, b \div 2)

\* n fits the struct format H (unsigned 16 bit)
FitsH(n) == n \in 0..65535

\* struct.pack("!H", n): big-endian unsigned 16 bit; of a number that does
\* not fit, an implementation that does not check the range packs the low
\* 16 bits
PackH(n) == <<(n \div 256) % 256, n % 256>>

\* b[0] << 8 | b[1]
UnpackH(b) == b[1] * 256 + b[2]

\* str(n).encode('ascii') for an int n
RECURSIVE Digits(_)
Digits(n) == IF n < 10 THEN <<48 + n>> ELSE Digits(n \div 10) \o <<48 + (n % 10)>>

IntToAscii(n) == IF n < 0 THEN <<45>> \o Digits(-n) ELSE Digits(n)

\* str(b, 'utf-8') succeeds: every byte of b begins or continues a well-formed
\* UTF-8 sequence (1 byte below 0x80; a lead byte C2..DF, E0..EF or F0..F4
\* followed by 1, 2 or 3 bytes 80..BF)
RECURSIVE Utf8Valid(_)
Utf8Valid(b) ==
    IF Len(b) = 0 THEN TRUE
    ELSE IF b[1] < 128 THEN Utf8Valid(Tail(b))
    ELSE IF b[1] \in 194..223 /\ Len(b) >= 2 /\ b[2] \in 128..191
         THEN Utf8Valid(SubSeq(b, 3, Len(b)))
    ELSE IF b[1] \in 224..239 /\ Len(b) >= 3 /\ b[2] \in 128..191 /\ b[3] \in 128..191
         THEN Utf8Valid(SubSeq(b, 4, Len(b)))
    ELSE IF /\ b[1] \in 240..244 /\ Len(b) >= 4
            /\ b[2] \in 128..191 /\ b[3] \in 128..191 /\ b[4] \in 128..191
         THEN Utf8Valid(SubSeq(b, 5, Len(b)))
    ELSE FALSE

Contains(seq, x) == \E i \in 1..Len(seq) : seq[i] = x

(* ------------------------------------------------------------------ *)
(* State                                                              *)
(* ------------------------------------------------------------------ *)

VARIABLES
    sock,             \* self._sock: "unset" (attribute never assigned), "new"
                      \* (created, not connected), "open", "closed"
    is_connected,     \* self._is_connected
    method_handlers,  \* self._method_handlers, the keys that are topic strings
    feed_keys,        \* self._method_handlers, the keys that are (key, handler)
                      \* tuples, as <<topic, nesting depth>>
    pid,              \* self._pid
    MQTT_SUB,         \* the module-level bytearrays
    MQTT_PUB,
    MQTT_CON,
    MQTT_CON_HEADER,
    rx,               \* bytes the broker has sent on the current socket, not yet read
    wr,               \* bytes handed to sock.write() by the last call
    reads,            \* sock.read() calls made by the last call
    closes,           \* sock.close() calls made by the last call
    calls,            \* handler invocations of the last call: <<handler, topic, msg>>
    acked,            \* the current socket has delivered a CONNACK 20 02 xx 00
    result,           \* how the last call ended
    call,             \* the last call: its name and arguments
    pre,              \* the object's fields when the last call began
    pc,               \* "idle", or "reconnect" inside reconnect()'s retry loop
    retries,          \* reconnect()'s local counter
    resets,           \* self._esp.reset() calls made by the running reconnect()
    resub_topics,     \* reconnect()'s argument
    msg_size_lim,     \* self._msg_size_lim
    MQTT__msg_size_lim \* self._MQTT__msg_size_lim, the attribute that the name
                      \* self.__msg_size_lim denotes inside class MQTT: <<>>
                      \* while it does not exist, else <<value>>

vars == <<sock, is_connected, method_handlers, feed_keys, pid, MQTT_SUB, MQTT_PUB,
          MQTT_CON, MQTT_CON_HEADER, rx, wr, reads, closes, calls, acked, result,
          call, pre, pc, retries, resets, resub_topics, msg_size_lim,
          MQTT__msg_size_lim>>

\* the object's fields, the socket and the per-call log as one record
Self ==
    [sock |-> sock, is_connected |-> is_connected, method_handlers |-> method_handlers,
     feed_keys |-> feed_keys, pid |-> pid, MQTT_SUB |-> MQTT_SUB, MQTT_PUB |-> MQTT_PUB,
     MQTT_CON |-> MQTT_CON, MQTT_CON_HEADER |-> MQTT_CON_HEADER, rx |-> rx, wr |-> wr,
     reads |-> reads, closes |-> closes, calls |-> calls, acked |-> acked,
     result |-> result, ret |-> NoneRet, werr |-> FALSE, strict |-> FALSE]

Running == [status |-> "run", exc |-> "none", why |-> "none", val |-> NoneRet]

\* a call begins: the per-call log is empty.  werr says whether this transport
\* raises OSError when written after close() / before connect() (TRUE) or
\* takes the bytes silently (FALSE); inb are the bytes the broker sends while
\* the call runs.
Begin(s, inb, werr) ==
    [s EXCEPT !.wr = <<>>, !.reads = 0, !.closes = 0, !.calls = <<>>,
              !.result = Running, !.ret = NoneRet, !.werr = werr,
              !.rx = IF s.sock = "open" THEN s.rx \o inb ELSE <<>>]

IsRunning(s) == s.result.status = "run"

Raise(s, exc, why) ==
    IF IsRunning(s)
    THEN [s EXCEPT !.result = [status |-> "raise", exc |-> exc, why |-> why, val |-> NoneRet]]
    ELSE s

Return(s, v) ==
    IF IsRunning(s)
    THEN [s EXCEPT !.result = [status |-> "ok", exc |-> "none", why |-> "none", val |-> v]]
    ELSE s

\* a loop that polls a socket which will never deliver another byte
Hang(s) ==
    IF IsRunning(s)
    THEN [s EXCEPT !.result = [status |-> "hang", exc |-> "none", why |-> "none", val |-> NoneRet]]
    ELSE s

(* ------------------------------------------------------------------ *)
(* Transport collaborator: write(bytes), read(n), close()             *)
(* ------------------------------------------------------------------ *)

\* self._sock is read before __init__ or connect() ever assigned it
NoSock(s) == Raise(s, "AttributeError", "_sock")

\* the transport refuses the use of a socket that is not open
Refused(s) == Raise(s, "OSError", "socket is not open")

sock_write(s, bytes) ==
    IF ~IsRunning(s) THEN s
    ELSE IF s.sock = "unset" THEN NoSock(s)
    ELSE IF s.sock # "open" /\ s.werr THEN Refused(s)
    ELSE [s EXCEPT !.wr = @ \o bytes]

\* read(n) returns up to n bytes; fewer (or none) when the timeout expires
\* first.  ReadData is the value returned, ReadDone the state afterwards.
ReadCount(s, n) == IF n < 0 THEN 0 ELSE Min(n, Len(s.rx))

ReadData(s, n) == SubSeq(s.rx, 1, ReadCount(s, n))

ReadDone(s, n) ==
    IF ~IsRunning(s) THEN s
    ELSE IF s.sock = "unset" THEN NoSock(s)
    ELSE IF s.sock # "open" /\ s.werr THEN Refused(s)
    ELSE [s EXCEPT !.rx = SubSeq(s.rx, ReadCount(s, n) + 1, Len(s.rx)), !.reads = @ + 1]

sock_close(s) ==
    IF ~IsRunning(s) THEN s
    ELSE IF s.sock = "unset" THEN NoSock(s)
    ELSE [s EXCEPT !.sock = "closed", !.rx = <<>>, !.closes = @ + 1]

\* _send_str(string) for a str: the 16-bit length, then the utf-8 bytes
\* (topics are ASCII here, so the encoding is the code points)
send_str(s, string) == sock_write(sock_write(s, PackH(Len(string))), string)

(* ------------------------------------------------------------------ *)
(* Inbound processing                                                 *)
(* ------------------------------------------------------------------ *)

\* _recv_len: the loop reads one byte per round until a byte without the
\* continuation bit; an empty read makes read(1)[0] raise IndexError.
\* The record is the socket state after the loop, with the length in ret.
RECURSIVE recv_len_loop(_, _, _)
recv_len_loop(s, n, sh) ==
    LET b == ReadData(s, 1)
        s1 == ReadDone(s, 1)
    IN  IF b = <<>> THEN Raise(s1, "IndexError", "read(1)[0]")
        ELSE LET n1 == n + (b[1] % 128) * sh
             IN  IF b[1] < 128 THEN [s1 EXCEPT !.ret = n1]
                 ELSE recv_len_loop(s1, n1, sh * 128)

_recv_len(s) == recv_len_loop(s, 0, 1)

\* ret := v, the value a method hands back to the method that called it
SetRet(s, v) == IF IsRunning(s) THEN [s EXCEPT !.ret = v] ELSE s

\* lines 514-520: PUBACK for QoS 1, assert 0 for QoS 2, then return op
wfm_ack(s, op, rpid) ==
    IF BitAnd(op, 6) = 2 THEN SetRet(sock_write(s, <<64, 2>> \o PackH(rpid)), op)
    ELSE IF BitAnd(op, 6) = 4 THEN Raise(s, "AssertionError", "assert 0")
    ELSE SetRet(s, op)

\* lines 509-513: read the payload; for a registered topic decode it
\* (str(msg, 'utf-8')) and call the topic's handler
wfm_dispatch(s, op, sz, topic, rpid) ==
    wfm_ack(IF IsRunning(ReadDone(s, sz)) /\ topic \in DOMAIN s.method_handlers
            THEN IF Utf8Valid(ReadData(s, sz))
                 THEN [ReadDone(s, sz) EXCEPT
                          !.calls = Append(@, <<s.method_handlers[topic], topic, ReadData(s, sz)>>)]
                 ELSE Raise(ReadDone(s, sz), "UnicodeError", "msg")
            ELSE ReadDone(s, sz),
            op, rpid)

\* lines 505-508: the packet id, present when a QoS bit is set
wfm_pid(s, op, sz, topic) ==
    IF BitAnd(op, 6) = 0 THEN wfm_dispatch(s, op, sz, topic, 0)
    ELSE IF Len(ReadData(s, 2)) < 2 THEN Raise(ReadDone(s, 2), "IndexError", "pid")
    ELSE wfm_dispatch(ReadDone(s, 2), op, sz - 2, topic, UnpackH(ReadData(s, 2)))

\* lines 502-504: the topic; sz is the remaining length, topic_len the
\* length just read
wfm_topic(s, op, sz, topic_len) ==
    IF Utf8Valid(ReadData(s, topic_len))
    THEN wfm_pid(ReadDone(s, topic_len), op, sz - (topic_len + 2), ReadData(s, topic_len))
    ELSE Raise(ReadDone(s, topic_len), "UnicodeError", "topic")

\* lines 500-501: the topic length, after _recv_len left the remaining
\* length in ret
wfm_topic_len(s, op) ==
    IF ~IsRunning(s) THEN s
    ELSE IF Len(ReadData(s, 2)) < 2 THEN Raise(ReadDone(s, 2), "IndexError", "topic_len")
    ELSE wfm_topic(ReadDone(s, 2), op, s.ret, UnpackH(ReadData(s, 2)))

\* the PUBLISH branch of wait_for_msg (lines 499-520), after the first byte
\* op was read
wait_for_msg_publish(s, op) == wfm_topic_len(_recv_len(s), op)

\* wait_for_msg(): one poll of the socket; ret is the value returned
wait_for_msg(s) ==
    LET res == ReadData(s, 1)
        s1 == ReadDone(s, 1)
    IN  IF ~IsRunning(s) THEN s
        ELSE IF res = <<>> THEN [s1 EXCEPT !.ret = NoneRet]
        ELSE IF res = MQTT_PINGRESP THEN
            LET szb == ReadData(s1, 1)
                s2 == ReadDone(s1, 1)
            IN  IF szb = <<>> THEN Raise(s2, "IndexError", "read(1)[0]")
                ELSE IF szb[1] # 0 THEN Raise(s2, "AssertionError", "sz == 0")
                ELSE [s2 EXCEPT !.ret = NoneRet]
        ELSE IF BitAnd(res[1], 240) # 48 THEN [s1 EXCEPT !.ret = res[1]]
        ELSE wait_for_msg_publish(s1, res[1])

(* ------------------------------------------------------------------ *)
(* Client configuration explored: no username/password, no last will, *)
(* keep-alive 0 (the class has no setter for it), no paho callbacks.  *)
(* ------------------------------------------------------------------ *)

\* self._client_id, "cpy"
ClientId == <<99, 112, 121>>

\* the handler subscribe() registers when method_handler is None
default_sub_handler == "default_sub_handler"

(* ------------------------------------------------------------------ *)
(* Outbound encoding                                                  *)
(* ------------------------------------------------------------------ *)

\* the remaining-length loop of connect() and publish(), writing into the
\* bytearray buf from index i (0-based):
\*     while sz > 0x7f: buf[i] = (sz & 0x7f) | 0x80; sz >>= 7; i += 1
\*     buf[i] = sz
\* An index past the bytearray raises IndexError (ok = FALSE).
RECURSIVE enc_len_loop(_, _, _)
enc_len_loop(buf, i, sz) ==
    IF i + 1 > Len(buf) THEN [buf |-> buf, ok |-> FALSE]
    ELSE IF sz > 127
         THEN enc_len_loop([buf EXCEPT ![i + 1] = BitOr(sz % 128, 128)], i + 1, sz \div 128)
         ELSE [buf |-> [buf EXCEPT ![i + 1] = sz], ok |-> TRUE]

(* ------------------------------------------------------------------ *)
(* connect(clean_session)                                             *)
(*   tconn: what sock.connect() does: "ok", "RuntimeError", "OSError" *)
(*   reply: the bytes the broker sends on the new socket              *)
(* ------------------------------------------------------------------ *)

\* lines 243-251: read and judge the CONNACK
\* connect() returning the whole third CONNACK byte instead of its bit 0
connect_connack_whole_byte(s) ==
    LET rc == ReadData(s, 4)
        s1 == ReadDone(s, 4)
    IN  IF ~IsRunning(s1) THEN s1
        ELSE IF Len(rc) < 4 \/ rc[1] # 32 \/ rc[2] # 2 THEN Raise(s1, "AssertionError", "CONNACK header")
        ELSE IF rc[4] # 0 THEN Raise(s1, "MMQTTException", "Connection Refused")
        ELSE Return([s1 EXCEPT !.is_connected = TRUE, !.acked = TRUE], rc[3])

connect_connack(s) ==
    LET rc == ReadData(s, 4)
        s1 == ReadDone(s, 4)
    IN  IF ~IsRunning(s1) THEN s1
        ELSE IF Len(rc) < 1 THEN Raise(s1, "IndexError", "rc[0]")
        ELSE IF rc[1] # 32 THEN Raise(s1, "AssertionError", "CONNACK header")
        ELSE IF Len(rc) < 2 THEN Raise(s1, "IndexError", "rc[1]")
        ELSE IF rc[2] # 2 THEN Raise(s1, "AssertionError", "CONNACK header")
        ELSE IF Len(rc) < 4 THEN Raise(s1, "IndexError", "rc[3]")
        ELSE IF rc[4] # 0
             THEN IF rc[4] \in CONNACK_ERRORS
                  THEN Raise(s1, "MMQTTException", "Connection Refused")
                  ELSE Raise(s1, "KeyError", "CONNACK_ERRORS")
        ELSE Return([s1 EXCEPT !.is_connected = TRUE, !.acked = TRUE], BitAnd(rc[3], 1))

connect(s0, clean_session, tconn, reply) ==
    LET s1 == [s0 EXCEPT !.sock = "new", !.rx = <<>>, !.acked = FALSE]
    IN  IF tconn = "RuntimeError" THEN Raise(s1, "MMQTTException", "Invalid server address defined.")
        ELSE IF tconn = "OSError" THEN Raise(s1, "OSError", "sock.connect")
        ELSE
        LET s2 == [s1 EXCEPT !.sock = "open", !.rx = reply,
                             !.MQTT_CON_HEADER[7] = IF clean_session THEN 2 ELSE 0]
            enc == enc_len_loop(s2.MQTT_CON, 1, 12 + Len(ClientId))
            s3 == [s2 EXCEPT !.MQTT_CON = enc.buf]
        IN  IF ~enc.ok THEN Raise(s3, "IndexError", "premsg[i]")
            ELSE connect_connack(
                     send_str(sock_write(sock_write(s3, s3.MQTT_CON), s3.MQTT_CON_HEADER),
                              ClientId))

(* ------------------------------------------------------------------ *)
(* disconnect()                                                       *)
(* ------------------------------------------------------------------ *)

\* line 256 tests self._sock against None; _sock is never None: __init__
\* does not assign it and connect() assigns a socket object
disconnect(s) ==
    IF s.sock = "unset" THEN NoSock(s)
    ELSE LET s1 == sock_close(sock_write(s, MQTT_DISCONNECT))
         IN  IF IsRunning(s1) THEN Return([s1 EXCEPT !.is_connected = FALSE], NoneRet)
             ELSE s1

(* ------------------------------------------------------------------ *)
(* ping()                                                             *)
(* ------------------------------------------------------------------ *)

ping(s) ==
    LET s1 == sock_write(s, MQTT_PING_REQ)
        res == ReadData(s1, 1)
        s2 == ReadDone(s1, 1)
    IN  IF ~IsRunning(s2) THEN s2
        ELSE IF res # MQTT_PINGRESP THEN Raise(s2, "MMQTTException", "PINGRESP was not received")
        ELSE Return(s2, res[1])

(* ------------------------------------------------------------------ *)
(* publish(topic, msg, retain, qos)                                   *)
(*   msg is [type, s, n]: None, a str s, an int n, or another type    *)
(* ------------------------------------------------------------------ *)

\* lines 291-298: the bytes of msg after conversion
msg_bytes(msg) == IF msg.type = "int" THEN IntToAscii(msg.n) ELSE msg.s

\* lines 305-345, once the arguments are accepted
publish_send(s, topic, payload, retain, qos) ==
    LET hdr == [s.MQTT_PUB EXCEPT ![1] = BitOr(@, BitOr(qos * 2, IF retain THEN 1 ELSE 0))]
        sz == 2 + Len(topic) + Len(payload) + (IF qos > 0 THEN 2 ELSE 0)
        enc == enc_len_loop(hdr, 1, sz)
        s1 == [s EXCEPT !.MQTT_PUB = enc.buf]
    IN  IF sz >= 2097152 THEN Raise([s EXCEPT !.MQTT_PUB = hdr], "AssertionError", "sz < 2097152")
        ELSE IF ~enc.ok THEN Raise(s1, "IndexError", "pkt[i]")
        ELSE LET s2 == send_str(sock_write(s1, s1.MQTT_PUB), topic)
             IN  IF qos > 0
                 \* self.pid += 1: the object has _pid and packet_id, no pid
                 THEN Raise(s2, "AttributeError", "pid")
                 ELSE Return(sock_write(s2, payload), NoneRet)

publish(s, topic, msg, retain, qos) ==
    IF topic = NoneVal \/ Len(topic) = 0
    THEN Raise(s, "MMQTTException", "Invalid MQTT Topic, must have length > 0.")
    ELSE IF Contains(topic, 43) \/ Contains(topic, 35)
    THEN Raise(s, "MMQTTException", "Topic can not contain wildcards.")
    ELSE IF msg.type = "None" THEN Raise(s, "MMQTTException", "Message can not be None.")
    ELSE IF msg.type \notin {"int", "str"} THEN Raise(s, "MMQTTException", "Invalid message data type.")
    ELSE IF Len(msg_bytes(msg)) > MQTT_MSG_MAX_SZ THEN Raise(s, "MMQTTException", "Message size larger")
    ELSE IF qos < 0 \/ qos > 2
    THEN Raise(s, "MMQTTException", "Invalid QoS level,  must be between 0 and 2.")
    ELSE IF s.sock = "unset" THEN NoSock(s)
    ELSE publish_send(s, topic, msg_bytes(msg), retain, qos)

(* ------------------------------------------------------------------ *)
(* subscribe(topic, method_handler, qos)                              *)
(* ------------------------------------------------------------------ *)

\* lines 390-396: the SUBACK after its first byte; rc is read(4)
subscribe_suback(s, rc, pkt) ==
    IF ~IsRunning(s) THEN s
    ELSE IF Len(rc) < 2 THEN Raise(s, "IndexError", "rc[1]")
    ELSE IF rc[2] # pkt[3] THEN Raise(s, "AssertionError", "SUBACK packet id")
    ELSE IF Len(rc) < 3 THEN Raise(s, "IndexError", "rc[2]")
    ELSE IF rc[3] # pkt[4] THEN Raise(s, "AssertionError", "SUBACK packet id")
    ELSE IF Len(rc) < 4 THEN Raise(s, "IndexError", "rc[3]")
    ELSE IF rc[4] = 128 THEN Raise(s, "MMQTTException", "SUBACK Failure!")
    ELSE Return(s, NoneRet)

\* lines 387-396: poll until a SUBACK; pkt is the SUBSCRIBE header written.
\* subscribe_polled judges one poll; drained says that the poll found the
\* socket empty, as every later poll will.
RECURSIVE subscribe_wait(_, _)
subscribe_polled(s, pkt, drained) ==
    IF ~IsRunning(s) THEN s
    ELSE IF s.ret = 144 THEN subscribe_suback(ReadDone(s, 4), ReadData(s, 4), pkt)
    ELSE IF drained THEN Hang(s)
    ELSE subscribe_wait(s, pkt)

subscribe_wait(s, pkt) == subscribe_polled(wait_for_msg(s), pkt, s.rx = <<>>)

\* lines 378-396, once the topic is in the registry
subscribe_send(s, topic, qos) ==
    IF s.sock = "unset" THEN NoSock(s)
    ELSE LET p == s.pid + PID_STRIDE
             pkt == <<s.MQTT_SUB[1], 2 + 2 + Len(topic) + 1>> \o PackH(p)
             s1 == [s EXCEPT !.pid = p, !.MQTT_SUB = pkt]
         IN  IF ~FitsH(p) /\ s.strict
             THEN Raise([s EXCEPT !.pid = p], "struct.error", "pack_into")
             ELSE subscribe_wait(sock_write(send_str(sock_write(s1, pkt), topic), <<qos>>),
                                 pkt)

\* subscribe() without the test of line 371 for a topic already registered
subscribe_again(s, topic, method_handler, qos) ==
    IF qos < 0 \/ qos > 2 THEN Raise(s, "MMQTTException", "QoS level must be between 1 and 2.")
    ELSE IF topic = NoneVal \/ Len(topic) = 0
    THEN Raise(s, "MMQTTException", "Invalid MQTT Topic, must have length > 0.")
    ELSE IF method_handler # "None" THEN Raise(s, "NameError", "custom_method_handler")
    ELSE subscribe_send(
             [s EXCEPT !.method_handlers =
                 [t \in DOMAIN @ \cup {topic} |->
                     IF t = topic THEN default_sub_handler ELSE @[t]]],
             topic, qos)

subscribe(s, topic, method_handler, qos) ==
    IF qos < 0 \/ qos > 2 THEN Raise(s, "MMQTTException", "QoS level must be between 1 and 2.")
    ELSE IF topic = NoneVal \/ Len(topic) = 0
    THEN Raise(s, "MMQTTException", "Invalid MQTT Topic, must have length > 0.")
    ELSE IF topic \in DOMAIN s.method_handlers
    THEN Raise(s, "MMQTTException", "Already subscribed to topic.")
    \* line 377 names custom_method_handler, which is defined nowhere
    ELSE IF method_handler # "None" THEN Raise(s, "NameError", "custom_method_handler")
    ELSE subscribe_send(
             [s EXCEPT !.method_handlers =
                 [t \in DOMAIN @ \cup {topic} |->
                     IF t = topic THEN default_sub_handler ELSE @[t]]],
             topic, qos)

(* ------------------------------------------------------------------ *)
(* unsubscribe(topic)                                                 *)
(* ------------------------------------------------------------------ *)

\* lines 406-409: the loop has no exit but an exception
RECURSIVE unsubscribe_wait(_)
unsubscribe_polled(s, drained) ==
    IF ~IsRunning(s) THEN s
    ELSE IF drained THEN Hang(s)
    ELSE unsubscribe_wait(s)

unsubscribe_wait(s) == unsubscribe_polled(wait_for_msg(s), s.rx = <<>>)

unsubscribe(s, topic) ==
    LET p == s.pid + PID_STRIDE
        s1 == [s EXCEPT !.pid = p]
    IN  IF topic = NoneVal THEN Raise(s1, "TypeError", "len(None)")
        ELSE IF ~FitsH(p) /\ s.strict THEN Raise(s1, "struct.error", "pack_into")
        ELSE unsubscribe_wait(sock_write(s1, <<160, 2 + 2 + Len(topic) + 1>> \o PackH(p)))

(* ------------------------------------------------------------------ *)
(* reconnect(retries, resub_topics)                                   *)
(* ------------------------------------------------------------------ *)

\* lines 178-179 for the item popitem() returned: feed is the tuple
\* (key, handler) and is passed to subscribe() as its topic.  isStr says
\* whether the popped key was a topic string or itself a tuple.
\* subscribe(feed): qos is 0 and len(feed) is 2, so the two argument checks
\* pass; feed is registered under the default handler; _send_str(feed)
\* writes the length 2 and then hands the tuple itself to sock.write(),
\* which takes bytes only.
subscribe_feed(s, key, isStr) ==
    LET feed == IF isStr THEN <<key, 1>> ELSE <<key[1], key[2] + 1>>
        s1 == IF isStr
              THEN [s EXCEPT !.method_handlers = [t \in DOMAIN @ \ {key} |-> @[t]]]
              ELSE [s EXCEPT !.feed_keys = @ \ {key}]
        p == s1.pid + PID_STRIDE
        pkt == <<s1.MQTT_SUB[1], 2 + 2 + 2 + 1>> \o PackH(p)
    IN  IF feed \in s1.feed_keys THEN Raise(s1, "MMQTTException", "Already subscribed to topic.")
        ELSE Raise(sock_write(sock_write([s1 EXCEPT !.feed_keys = @ \cup {feed},
                                                     !.pid = p, !.MQTT_SUB = pkt],
                                         pkt),
                              PackH(2)),
                   "TypeError", "sock.write(tuple)")

\* one round of the loop `while not self._is_connected` (lines 165-179);
\* loop = TRUE in the result's val marks the `continue` of the except branch
reconnect_round_retry_refused(s, tconn, reply, resub, key, isStr) ==
    LET s1 == connect(s, FALSE, tconn, reply)
    IN  IF s1.result.status = "raise"
        THEN IF s1.result.exc = "MMQTTException"
             THEN [s1 EXCEPT !.result.exc = "OSError"]
             ELSE s1
        ELSE LET s2 == [s1 EXCEPT !.is_connected = TRUE, !.result = Running]
             IN  IF resub /\ key # NoneVal
                 THEN subscribe_feed(s2, key, isStr)
                 ELSE Return(s2, NoneRet)

reconnect_round(s, tconn, reply, resub, key, isStr) ==
    LET s1 == connect(s, FALSE, tconn, reply)
    IN  IF s1.result.status = "raise"
        THEN s1
        ELSE LET s2 == [s1 EXCEPT !.is_connected = TRUE, !.result = Running]
             IN  IF resub /\ key # NoneVal
                 THEN subscribe_feed(s2, key, isStr)
                 ELSE Return(s2, NoneRet)

(* ------------------------------------------------------------------ *)
(* Inputs                                                             *)
(* ------------------------------------------------------------------ *)

\* "a", "#", "a+" and the topic "b" nobody subscribes to
TopicA == <<97>>
TopicHash == <<35>>
TopicAPlus == <<97, 43>>

NoMsg == [type |-> "None", s |-> <<>>, n |-> 0]
MsgHi == [type |-> "str", s |-> <<104, 105>>, n |-> 0]
Msg42 == [type |-> "int", s |-> <<>>, n |-> 42]
MsgBytes == [type |-> "bytes", s |-> <<104, 105>>, n |-> 0]

PubArg(topic, msg, retain, qos) == [topic |-> topic, msg |-> msg, retain |-> retain, qos |-> qos]

\* publish() calls: acceptable arguments, and calls with one unacceptable
\* argument each (no topic, empty topic, wildcards, no message, a message
\* that is neither number nor str, QoS outside 0..2)
PublishCalls ==
    {PubArg(TopicA, m, FALSE, q) : m \in {MsgHi, Msg42}, q \in {0, 1}}
    \cup {PubArg(t, MsgHi, FALSE, 0) : t \in {NoneVal, <<>>, TopicAPlus, TopicHash}}
    \cup {PubArg(TopicA, m, FALSE, 0) : m \in {NoMsg, MsgBytes}}
    \cup {PubArg(TopicA, MsgHi, FALSE, q) : q \in {-1, 3}}

\* publish() calls with acceptable arguments, over both retain flags and the
\* QoS levels 0, 1 and 2
PublishFlagCalls == {PubArg(TopicA, MsgHi, r, q) : r \in BOOLEAN, q \in {0, 1, 2}}

SubArg(topic, handler, qos) == [topic |-> topic, handler |-> handler, qos |-> qos]

\* subscribe() calls: with and without a handler, each QoS, a wildcard
\* topic, and calls with an unacceptable topic or QoS
SubscribeCalls ==
    {SubArg(TopicA, "None", q) : q \in {-1, 0, 1, 2, 3}}
    \cup {SubArg(t, "None", 0) : t \in {NoneVal, <<>>, TopicHash}}
    \cup {SubArg(TopicA, "on_message", 0), SubArg(TopicHash, "None", 3)}

UnsubscribeTopics == {NoneVal, TopicA}

CleanSessionArgs == BOOLEAN

\* reconnect(retries, resub_topics) calls
ReconnectCalls == {<<3, FALSE>>, <<RECONNECT_LIMIT, FALSE>>, <<RECONNECT_LIMIT, TRUE>>}

ConnectOutcomes == {"ok", "RuntimeError", "OSError"}

\* what the broker may send in answer to CONNECT
ConnackReplies ==
    {<<32, 2, 0, 0>>, <<32, 2, 1, 0>>, <<32, 2, 3, 0>>, <<32, 2, 0, 1>>, <<32, 2, 1, 5>>,
     <<32, 2, 0, 6>>, <<48, 2, 0, 0>>, <<32, 3, 0, 0>>, <<32, 2>>, <<>>,
     <<32, 2, 0, 0, 208, 0>>}

Suback(p, rc) == <<144, 3>> \o PackH(p) \o <<rc>>

\* frames the broker may send after CONNACK; p is the packet id in use:
\* SUBACK (granted, refused, for another packet id, cut short), PUBACK,
\* UNSUBACK, PINGRESP, PUBLISH (QoS 0 on "a", QoS 0 on "b", QoS 1 on "a"
\* with packet id 7, QoS 1 on "b" with packet id 9, QoS 1 on "a" with
\* packet id 8 and the one-byte payload FF)
Frames(p) ==
    {Suback(p, 0), Suback(p, 1), Suback(p, 128), Suback(p + 1, 0), <<144, 3>>,
     <<64, 2>> \o PackH(p), <<176, 2>> \o PackH(p), <<208, 0>>,
     <<48, 5, 0, 1, 97, 104, 105>>, <<48, 4, 0, 1, 98, 120>>,
     <<50, 7, 0, 1, 97, 0, 7, 104, 105>>, <<50, 6, 0, 1, 98, 0, 9, 120>>,
     <<50, 6, 0, 1, 97, 0, 8, 255>>}

RECURSIVE FrameSeqs(_, _)
FrameSeqs(p, n) ==
    IF n = 0 THEN {<<>>}
    ELSE LET shorter == FrameSeqs(p, n - 1)
         IN  shorter \cup {x \o f : x \in shorter, f \in Frames(p)}

\* bytes arriving while a call waits in read(): nothing new while more than
\* MaxRxBacklog bytes are still unread
Inbound(p) == IF Len(rx) <= MaxRxBacklog THEN FrameSeqs(p, MaxInFrames) ELSE {<<>>}

\* the same, for a call that would end as s when nothing arrives: a call
\* that never reads the socket does not wait for anything to arrive
Arriving(s, p) == IF s.reads > 0 THEN Inbound(p) ELSE {<<>>}

\* how the transport treats a socket that is not open (see Begin)
WErrs == IF sock = "open" THEN {FALSE} ELSE BOOLEAN

\* what struct.pack_into does with a packet id that does not fit 16 bits:
\* CPython raises struct.error (TRUE), MicroPython packs the low 16 bits
\* (FALSE)
Stricts == IF FitsH(pid + PID_STRIDE) THEN {FALSE} ELSE BOOLEAN

\* a call begins on the client as it is now
BeginCall(inb, werr, strict) == [Begin(Self, inb, werr) EXCEPT !.strict = strict]

\* values the packet-id counter is explored from: 0 (a new client) and the
\* values it has 2 calls before it passes 65535 and 65536 * 11
PidStarts == {0, 65516, 720874}

\* the counter is within MaxPidSteps steps of a value it is explored from
PidInWindow == \E b \in PidStarts : b <= pid /\ pid < b + MaxPidSteps * PID_STRIDE

(* ------------------------------------------------------------------ *)
(* Actions                                                            *)
(* ------------------------------------------------------------------ *)

NoArgs ==
    [name |-> "none", topic |-> NoneVal, msg |-> NoMsg, qos |-> 0, retain |-> FALSE,
     handler |-> "None", clean_session |-> FALSE, retries |-> 0, resub_topics |-> FALSE,
     inb |-> <<>>, msg_size |-> 0]

Snapshot ==
    [sock |-> sock, is_connected |-> is_connected, method_handlers |-> method_handlers,
     feed_keys |-> feed_keys, pid |-> pid, MQTT_PUB |-> MQTT_PUB, rx |-> rx]

NoResult == [status |-> "ok", exc |-> "none", why |-> "none", val |-> NoneRet]

\* the call ends in state s
Commit(s) ==
    /\ sock' = s.sock
    /\ is_connected' = s.is_connected
    /\ method_handlers' = s.method_handlers
    /\ feed_keys' = s.feed_keys
    /\ pid' = s.pid
    /\ MQTT_SUB' = s.MQTT_SUB
    /\ MQTT_PUB' = s.MQTT_PUB
    /\ MQTT_CON' = s.MQTT_CON
    /\ MQTT_CON_HEADER' = s.MQTT_CON_HEADER
    /\ rx' = s.rx
    /\ wr' = s.wr
    /\ reads' = s.reads
    /\ closes' = s.closes
    /\ calls' = s.calls
    /\ acked' = s.acked
    /\ result' = s.result
    /\ UNCHANGED <<msg_size_lim, MQTT__msg_size_lim>>

\* the caller is between two calls
Idle == pc = "idle" /\ call.name = "none"

\* a client whose packet-id counter is p and whose other attributes are as
\* __init__ left them (unsubscribe() adds 11 to _pid before it touches
\* anything else, on a client that never connected too)
InitAt(p) ==
    /\ sock = "unset"
    /\ is_connected = FALSE
    /\ method_handlers = [t \in {} |-> default_sub_handler]
    /\ feed_keys = {}
    /\ pid = p
    /\ MQTT_SUB = MQTT_SUB_INIT
    /\ MQTT_PUB = MQTT_PUB_INIT
    /\ MQTT_CON = MQTT_CON_INIT
    /\ MQTT_CON_HEADER = MQTT_CON_HEADER_INIT
    /\ rx = <<>>
    /\ wr = <<>>
    /\ reads = 0
    /\ closes = 0
    /\ calls = <<>>
    /\ acked = FALSE
    /\ result = NoResult
    /\ call = NoArgs
    /\ pre = [sock |-> "unset", is_connected |-> FALSE,
              method_handlers |-> [t \in {} |-> default_sub_handler],
              feed_keys |-> {}, pid |-> p, MQTT_PUB |-> MQTT_PUB_INIT, rx |-> <<>>]
    /\ pc = "idle"
    /\ retries = 0
    /\ resets = 0
    /\ resub_topics = FALSE
    /\ msg_size_lim = MQTT_MSG_SZ_LIM
    /\ MQTT__msg_size_lim = <<>>

Init == InitAt(0)

Connect ==
    /\ Idle
    /\ \E clean_session \in CleanSessionArgs, tconn \in ConnectOutcomes :
          \E reply \in IF tconn = "ok" THEN ConnackReplies ELSE {<<>>} :
             /\ Commit(connect(Begin(Self, <<>>, FALSE), clean_session, tconn, reply))
             /\ call' = [NoArgs EXCEPT !.name = "connect", !.clean_session = clean_session,
                                       !.inb = reply]
    /\ pre' = Snapshot
    /\ UNCHANGED <<pc, retries, resets, resub_topics>>

Disconnect ==
    /\ Idle
    /\ \E werr \in WErrs : Commit(disconnect(Begin(Self, <<>>, werr)))
    /\ call' = [NoArgs EXCEPT !.name = "disconnect"]
    /\ pre' = Snapshot
    /\ UNCHANGED <<pc, retries, resets, resub_topics>>

Ping ==
    /\ Idle
    /\ \E werr \in WErrs :
          \E inb \in Arriving(ping(Begin(Self, <<>>, werr)), pid) :
             /\ Commit(ping(Begin(Self, inb, werr)))
             /\ call' = [NoArgs EXCEPT !.name = "ping", !.inb = inb]
    /\ pre' = Snapshot
    /\ UNCHANGED <<pc, retries, resets, resub_topics>>

\* publish() of a message at QoS 0 or 1, or with an unacceptable argument
Publish ==
    /\ Idle
    /\ \E a \in PublishCalls, werr \in WErrs :
          /\ Commit(publish(Begin(Self, <<>>, werr), a.topic, a.msg, a.retain, a.qos))
          /\ call' = [NoArgs EXCEPT !.name = "publish", !.topic = a.topic, !.msg = a.msg,
                                    !.retain = a.retain, !.qos = a.qos]
    /\ pre' = Snapshot
    /\ UNCHANGED <<pc, retries, resets, resub_topics>>

\* publish() with a retain flag and a QoS level of the caller's choice
PublishFlags ==
    /\ Idle
    /\ \E a \in PublishFlagCalls, werr \in WErrs :
          /\ Commit(publish(Begin(Self, <<>>, werr), a.topic, a.msg, a.retain, a.qos))
          /\ call' = [NoArgs EXCEPT !.name = "publish", !.topic = a.topic, !.msg = a.msg,
                                    !.retain = a.retain, !.qos = a.qos]
    /\ pre' = Snapshot
    /\ UNCHANGED <<pc, retries, resets, resub_topics>>

Subscribe ==
    /\ Idle
    /\ PidInWindow
    /\ \E a \in SubscribeCalls, werr \in WErrs, strict \in Stricts :
          \E inb \in Arriving(subscribe(BeginCall(<<>>, werr, strict), a.topic, a.handler, a.qos),
                              pid + PID_STRIDE) :
             /\ Commit(subscribe(BeginCall(inb, werr, strict), a.topic, a.handler, a.qos))
             /\ call' = [NoArgs EXCEPT !.name = "subscribe", !.topic = a.topic,
                                       !.handler = a.handler, !.qos = a.qos, !.inb = inb]
    /\ pre' = Snapshot
    /\ UNCHANGED <<pc, retries, resets, resub_topics>>

Unsubscribe ==
    /\ Idle
    /\ PidInWindow
    /\ \E topic \in UnsubscribeTopics, werr \in WErrs, strict \in Stricts :
          \E inb \in Arriving(unsubscribe(BeginCall(<<>>, werr, strict), topic),
                              pid + PID_STRIDE) :
             /\ Commit(unsubscribe(BeginCall(inb, werr, strict), topic))
             /\ call' = [NoArgs EXCEPT !.name = "unsubscribe", !.topic = topic, !.inb = inb]
    /\ pre' = Snapshot
    /\ UNCHANGED <<pc, retries, resets, resub_topics>>

WaitForMsg ==
    /\ Idle
    /\ \E werr \in WErrs :
          \E inb \in Arriving(wait_for_msg(Begin(Self, <<>>, werr)), pid) :
             LET s == wait_for_msg(Begin(Self, inb, werr))
             IN  /\ Commit(Return(s, s.ret))
                 /\ call' = [NoArgs EXCEPT !.name = "wait_for_msg", !.inb = inb]
    /\ pre' = Snapshot
    /\ UNCHANGED <<pc, retries, resets, resub_topics>>

\* the caller has the outcome of its call and turns to the next one: the
\* record of the finished call is dropped.  A call that hangs never gets here.
CallerResumes ==
    /\ pc = "idle"
    /\ call.name # "none"
    /\ result.status # "hang"
    /\ call' = NoArgs
    /\ pre' = Snapshot
    /\ result' = NoResult
    /\ wr' = <<>>
    /\ reads' = 0
    /\ closes' = 0
    /\ calls' = <<>>
    /\ UNCHANGED <<sock, is_connected, method_handlers, feed_keys, pid, MQTT_SUB, MQTT_PUB,
                   MQTT_CON, MQTT_CON_HEADER, rx, acked, pc, retries, resets, resub_topics,
                   msg_size_lim, MQTT__msg_size_lim>>

\* remaining lengths handed to the encoding loop: the ends of the ranges
\* that take 1, 2, 3 and 4 bytes, and the first value past them
LengthInputs ==
    {0, 127, 128, 16383, 16384, 2097151, 2097152, MQTT_MSG_MAX_SZ, MQTT_MSG_MAX_SZ + 1}

\* byte streams handed to _recv_len: encoded lengths of 1 to 4 bytes, and
\* streams whose first four bytes all have the continuation bit set
LengthStreams ==
    {<<0>>, <<127>>, <<128, 1>>, <<255, 127>>, <<128, 128, 1>>, <<255, 255, 255, 127>>,
     <<128, 128, 128, 128, 1>>, <<255, 255, 255, 255, 7>>, <<128, 128, 128, 128>>}

\* the bytearrays the encoding loop writes into: publish() uses MQTT_PUB
\* (line 305), connect() MQTT_CON (line 209)
LengthBuffers == {"publish", "connect"}

\* the remaining-length loop of publish() (lines 307-316) or connect()
\* (lines 212, 224-229) applied to sz; wr is what follows the first byte in
\* the bytearray the method then writes
EncodeLength ==
    /\ Idle
    /\ \E sz \in LengthInputs, b \in LengthBuffers :
          LET enc == enc_len_loop(IF b = "publish" THEN MQTT_PUB ELSE MQTT_CON, 1, sz)
              asserted == b = "publish" /\ sz >= 2097152
          IN  /\ call' = [NoArgs EXCEPT !.name = b, !.msg_size = sz]
              /\ MQTT_PUB' = IF b = "publish" /\ ~asserted THEN enc.buf ELSE MQTT_PUB
              /\ MQTT_CON' = IF b = "connect" THEN enc.buf ELSE MQTT_CON
              /\ result' = IF asserted
                           THEN [Running EXCEPT !.status = "raise", !.exc = "AssertionError",
                                                !.why = "sz < 2097152"]
                           ELSE IF ~enc.ok
                           THEN [Running EXCEPT !.status = "raise", !.exc = "IndexError",
                                                !.why = "pkt[i]"]
                           ELSE Running
              /\ wr' = IF asserted \/ ~enc.ok THEN <<>> ELSE Tail(enc.buf)
              /\ pc' = IF asserted \/ ~enc.ok THEN "idle" ELSE "decode"
    /\ pre' = Snapshot
    /\ reads' = 0
    /\ closes' = 0
    /\ calls' = <<>>
    /\ UNCHANGED <<sock, is_connected, method_handlers, feed_keys, pid, MQTT_SUB,
                   MQTT_CON_HEADER, rx, acked, retries, resets, resub_topics,
                   msg_size_lim, MQTT__msg_size_lim>>

\* _recv_len() applied to the bytes s on an open socket
recv_len_of(s) ==
    _recv_len([Self EXCEPT !.sock = "open", !.rx = s, !.reads = 0, !.result = Running])

\* _recv_len() reads back the length bytes the encoding loop produced
DecodeLength ==
    /\ pc = "decode"
    /\ result' = Return(recv_len_of(wr), recv_len_of(wr).ret).result
    /\ reads' = recv_len_of(wr).reads
    /\ pc' = "idle"
    /\ UNCHANGED <<sock, is_connected, method_handlers, feed_keys, pid, MQTT_SUB, MQTT_PUB,
                   MQTT_CON, MQTT_CON_HEADER, rx, wr, closes, calls, acked, call, pre,
                   retries, resets, resub_topics, msg_size_lim, MQTT__msg_size_lim>>

\* _recv_len() (lines 522-531) on a stream of the broker's choice; rx is
\* what it leaves unread
RecvLen ==
    /\ Idle
    /\ \E s \in LengthStreams :
          /\ call' = [NoArgs EXCEPT !.name = "_recv_len", !.inb = s]
          /\ result' = Return(recv_len_of(s), recv_len_of(s).ret).result
          /\ reads' = recv_len_of(s).reads
    /\ pre' = Snapshot
    /\ wr' = <<>>
    /\ closes' = 0
    /\ calls' = <<>>
    /\ UNCHANGED <<sock, is_connected, method_handlers, feed_keys, pid, MQTT_SUB, MQTT_PUB,
                   MQTT_CON, MQTT_CON_HEADER, rx, acked, pc, retries, resets, resub_topics,
                   msg_size_lim, MQTT__msg_size_lim>>

\* sizes the caller passes to the mqtt_msg setter
SizeLimits == {1, 5, MQTT_MSG_MAX_SZ}

\* mqtt_msg = msg_size (lines 416-422)
MqttMsgSet ==
    /\ Idle
    /\ \E msg_size \in SizeLimits :
          /\ MQTT__msg_size_lim' = IF msg_size < MQTT_MSG_MAX_SZ THEN <<msg_size>>
                                   ELSE MQTT__msg_size_lim
          /\ call' = [NoArgs EXCEPT !.name = "mqtt_msg.setter", !.msg_size = msg_size]
    /\ pre' = Snapshot
    /\ result' = NoResult
    /\ wr' = <<>>
    /\ reads' = 0
    /\ closes' = 0
    /\ calls' = <<>>
    /\ UNCHANGED <<sock, is_connected, method_handlers, feed_keys, pid, MQTT_SUB, MQTT_PUB,
                   MQTT_CON, MQTT_CON_HEADER, rx, acked, pc, retries, resets, resub_topics,
                   msg_size_lim>>

\* mqtt_msg (lines 411-414): the first element of the pair it returns
MqttMsgGet ==
    /\ Idle
    /\ call' = [NoArgs EXCEPT !.name = "mqtt_msg"]
    /\ pre' = Snapshot
    /\ result' = [NoResult EXCEPT !.val = msg_size_lim]
    /\ wr' = <<>>
    /\ reads' = 0
    /\ closes' = 0
    /\ calls' = <<>>
    /\ UNCHANGED <<sock, is_connected, method_handlers, feed_keys, pid, MQTT_SUB, MQTT_PUB,
                   MQTT_CON, MQTT_CON_HEADER, rx, acked, pc, retries, resets, resub_topics,
                   msg_size_lim, MQTT__msg_size_lim>>

\* reconnect() is called: line 164 overwrites the argument retries with 0;
\* a connected client leaves the loop at once
Reconnect ==
    /\ Idle
    /\ \E a \in ReconnectCalls :
          /\ call' = [NoArgs EXCEPT !.name = "reconnect", !.retries = a[1], !.resub_topics = a[2]]
          /\ resub_topics' = a[2]
    /\ retries' = 0
    /\ resets' = 0
    /\ pre' = Snapshot
    /\ IF is_connected
       THEN Commit(Return(Begin(Self, <<>>, FALSE), NoneRet)) /\ pc' = "idle"
       ELSE Commit(Begin(Self, <<>>, FALSE)) /\ pc' = "reconnect"

\* the keys popitem() may return
PopChoices ==
    IF DOMAIN method_handlers = {} /\ feed_keys = {}
    THEN {<<NoneVal, TRUE>>}
    ELSE {<<k, TRUE>> : k \in DOMAIN method_handlers} \cup {<<k, FALSE>> : k \in feed_keys}

\* one round of reconnect()'s loop
ReconnectRound ==
    /\ pc = "reconnect"
    /\ \E tconn \in ConnectOutcomes :
       \E reply \in IF tconn = "ok" THEN ConnackReplies ELSE {<<>>} :
       \E pop \in IF resub_topics THEN PopChoices ELSE {<<NoneVal, TRUE>>} :
          LET s == reconnect_round(Begin(Self, <<>>, FALSE), tconn, reply, resub_topics,
                                   pop[1], pop[2])
              failed == s.result.status = "raise" /\ s.result.exc = "OSError"
              reset == failed /\ retries + 1 >= RECONNECT_LIMIT
          IN  /\ reset => resets < MaxResets
              /\ IF pop[2] THEN TRUE ELSE pop[1][2] < MaxFeedDepth
              /\ Commit(IF failed THEN [s EXCEPT !.result = Running] ELSE s)
              /\ retries' = IF failed THEN (IF reset THEN 0 ELSE retries + 1) ELSE retries
              /\ resets' = IF reset THEN resets + 1 ELSE resets
              /\ pc' = IF failed THEN "reconnect" ELSE "idle"
              /\ call' = [call EXCEPT !.inb = reply]
    /\ UNCHANGED <<pre, resub_topics>>

\* the caller may make any call, in any order
Next ==
    \/ Connect
    \/ Disconnect
    \/ Ping
    \/ Publish
    \/ PublishFlags
    \/ Subscribe
    \/ Unsubscribe
    \/ WaitForMsg
    \/ Reconnect
    \/ ReconnectRound
    \/ MqttMsgSet
    \/ MqttMsgGet
    \/ CallerResumes

Spec == Init /\ [][Next]_vars

\* a caller that only opens and closes sessions
SessionNext ==
    \/ Connect
    \/ Disconnect
    \/ Reconnect
    \/ ReconnectRound
    \/ CallerResumes

SessionSpec == Init /\ [][SessionNext]_vars

\* a caller that subscribes, unsubscribes and polls for messages
SubscribeNext ==
    \/ Connect
    \/ Disconnect
    \/ Subscribe
    \/ Unsubscribe
    \/ WaitForMsg
    \/ CallerResumes

SubscribeSpec == Init /\ [][SubscribeNext]_vars

\* a caller that makes every call except reconnect()
CallsNext ==
    \/ Connect
    \/ Disconnect
    \/ Ping
    \/ Publish
    \/ Subscribe
    \/ Unsubscribe
    \/ WaitForMsg
    \/ CallerResumes

CallsSpec == Init /\ [][CallsNext]_vars

\* a caller that subscribes and unsubscribes on a client whose packet-id
\* counter has reached one of PidStarts
PidInit == \E p \in PidStarts : InitAt(p)

PidNext ==
    \/ Connect
    \/ Subscribe
    \/ Unsubscribe
    \/ CallerResumes

PidSpec == PidInit /\ [][PidNext]_vars

\* a caller that subscribes and reconnects
ResubNext ==
    \/ Subscribe
    \/ Reconnect
    \/ ReconnectRound
    \/ CallerResumes

\* a caller that connects and publishes
PubNext ==
    \/ Connect
    \/ Publish
    \/ PublishFlags
    \/ CallerResumes

PubSpec == Init /\ [][PubNext]_vars

\* a caller that sets and reads the message size limit and publishes
LimitNext ==
    \/ Connect
    \/ MqttMsgSet
    \/ MqttMsgGet
    \/ Publish
    \/ CallerResumes

LimitSpec == Init /\ [][LimitNext]_vars

\* the remaining-length encoding loop and _recv_len, applied to lengths and
\* byte streams
VarintNext ==
    \/ EncodeLength
    \/ DecodeLength
    \/ RecvLen
    \/ CallerResumes

VarintSpec == Init /\ [][VarintNext]_vars

ResubSpec == Init /\ [][ResubNext]_vars

(* ------------------------------------------------------------------ *)
(* Properties                                                         *)
(*   A call has ended when call names it and result.status is "ok",   *)
(*   "raise" or "hang"; pre is the client as the call found it, wr,   *)
(*   reads and closes what the call did to the transport, call.inb    *)
(*   what the broker sent while it ran.                               *)
(* ------------------------------------------------------------------ *)

\* C1: the client reports Connected (is_connected() true) only if, in the
\* current connection attempt, a CONNECT was written and a CONNACK with
\* header 0x20 0x02 and return code 0 was read (acked is set by exactly that
\* and cleared when connect() starts an attempt).
C1_ConnectedOnlyAfterConnack == is_connected => acked

\* C2: when connect() reads a CONNACK with a return code in 1..5 it fails
\* with the connection-refused error and is_connected() is false afterwards,
\* whatever the state before the call.
C2_RefusedConnectEndsDisconnected ==
    (/\ call.name = "connect"
     /\ Len(call.inb) >= 4
     /\ call.inb[1] = 32 /\ call.inb[2] = 2 /\ call.inb[4] \in 1..5)
    => (/\ result.status = "raise"
        /\ result.exc = "MMQTTException"
        /\ result.why = "Connection Refused"
        /\ ~is_connected)

\* C3: when connect() reads a CONNACK 0x20 0x02 with return code 0 it
\* returns bit 0 of the third CONNACK byte and the session is Connected.
C3_ConnectReturnsSessionPresent ==
    (/\ call.name = "connect"
     /\ Len(call.inb) >= 4
     /\ call.inb[1] = 32 /\ call.inb[2] = 2 /\ call.inb[4] = 0)
    => (/\ result.status = "ok"
        /\ result.val = call.inb[3] % 2
        /\ is_connected)

\* connect() has returned session-present 1 for a CONNACK 20 02 03 00
C3_Witness ==
    /\ call.name = "connect"
    /\ call.inb = <<32, 2, 3, 0>>
    /\ result.status = "ok"
    /\ result.val = 1
    /\ is_connected

\* C4: disconnect() called while is_connected() is true writes exactly
\* E0 00, then closes the transport once, returns, and is_connected() is
\* false afterwards.
C4_DisconnectWhenConnected ==
    (call.name = "disconnect" /\ pre.is_connected)
    => (/\ result.status = "ok"
        /\ wr = <<224, 0>>
        /\ closes = 1
        /\ sock = "closed"
        /\ ~is_connected)

\* C5: disconnect() called while is_connected() is false (before any
\* connect(), or again after a disconnect()) ends in the not-connected
\* error, writes nothing, closes nothing and is_connected() stays false.
C5_DisconnectWhenDisconnected ==
    (call.name = "disconnect" /\ ~pre.is_connected /\ pre.sock \in {"unset", "closed"})
    => (/\ result.status = "raise"
        /\ result.exc = "MMQTTException"
        /\ result.why = "MiniMQTT is not connected."
        /\ wr = <<>>
        /\ closes = 0
        /\ ~is_connected)

\* C6: while the session is Disconnected with the transport closed by
\* disconnect() or never opened, ping(), publish(), subscribe() and
\* unsubscribe() (called with arguments that are acceptable on a Connected
\* session) fail with the not-connected error, write nothing and read nothing.
C6_CallsFailFastWhenDisconnected ==
    (/\ ~pre.is_connected
     /\ pre.sock \in {"unset", "closed"}
     /\ \/ call.name = "ping"
        \/ call.name = "publish" /\ call.topic = TopicA /\ call.msg = MsgHi /\ call.qos = 0
        \/ /\ call.name = "subscribe"
           /\ call.topic = TopicA /\ call.handler = "None" /\ call.qos = 0
           /\ TopicA \notin DOMAIN pre.method_handlers
        \/ call.name = "unsubscribe" /\ call.topic = TopicA)
    => (/\ result.status = "raise"
        /\ result.exc = "MMQTTException"
        /\ wr = <<>>
        /\ reads = 0)

\* C7: a subscribe() that does not return success (an error, or no reply
\* ever) leaves the registry as it was before the call.
C7_FailedSubscribeKeepsRegistry ==
    (call.name = "subscribe" /\ result.status \in {"raise", "hang"})
    => method_handlers = pre.method_handlers

\* C8: subscribe(topic, handler, qos) on a Connected session with an open
\* transport, for a topic not yet registered and a QoS in 0..2, whose
\* transport answers what the call writes with a SUBACK carrying the packet
\* id of the request and a granted-QoS return code, returns success and the
\* registry maps the topic to the handler passed (to the default handler
\* when none was passed).
C8_SubscribeRegistersHandler ==
    (/\ call.name = "subscribe"
     /\ pre.is_connected /\ pre.sock = "open" /\ pre.rx = <<>>
     /\ call.topic # NoneVal /\ call.topic # <<>>
     /\ call.topic \notin DOMAIN pre.method_handlers
     /\ call.qos \in 0..2
     /\ \/ wr = <<>>
        \/ \E rc \in 0..2 : call.inb = Suback(pre.pid + PID_STRIDE, rc))
    => (/\ result.status = "ok"
        /\ call.topic \in DOMAIN method_handlers
        /\ method_handlers[call.topic] =
              IF call.handler = "None" THEN default_sub_handler ELSE call.handler)

\* C9 as stated: subscribe() to a topic that is already in the registry
\* fails with the already-subscribed error, writes nothing and leaves the
\* registry (the topic's handler included) as it was.
C9_DuplicateSubscribeRejected ==
    (call.name = "subscribe" /\ call.topic \in DOMAIN pre.method_handlers)
    => (/\ result.status = "raise"
        /\ result.exc = "MMQTTException"
        /\ result.why = "Already subscribed to topic."
        /\ wr = <<>>
        /\ method_handlers = pre.method_handlers)

\* C9 amended: subscribe() to a topic that is already in the registry fails,
\* writes nothing and leaves the registry as it was; the error is the
\* already-subscribed error when the QoS is in 0..2 and the invalid-QoS
\* error otherwise.
C9_DuplicateSubscribeRejectedAfterQos ==
    (call.name = "subscribe" /\ call.topic \in DOMAIN pre.method_handlers)
    => (/\ result.status = "raise"
        /\ result.exc = "MMQTTException"
        /\ result.why = IF call.qos \in 0..2 THEN "Already subscribed to topic."
                        ELSE "QoS level must be between 1 and 2."
        /\ wr = <<>>
        /\ reads = 0
        /\ pid = pre.pid
        /\ method_handlers = pre.method_handlers)

\* a second subscribe("a", qos 1) on a Connected session has been rejected
\* as already subscribed
C9_Witness ==
    /\ call.name = "subscribe"
    /\ call.topic = TopicA
    /\ call.qos = 1
    /\ TopicA \in DOMAIN pre.method_handlers
    /\ pre.is_connected
    /\ pre.sock = "open"
    /\ result.why = "Already subscribed to topic."

\* C10: publish() or subscribe() with an empty topic, a topic containing
\* '+' or '#', a message of None or a QoS outside 0..2 fails with a typed
\* error, writes nothing, and leaves the connection state, the packet-id
\* counter and the registry unchanged.
C10_InvalidArgumentsRejected ==
    (/\ call.name \in {"publish", "subscribe"}
     /\ \/ call.topic = <<>>
        \/ call.topic # NoneVal /\ (Contains(call.topic, 43) \/ Contains(call.topic, 35))
        \/ call.name = "publish" /\ call.msg.type = "None"
        \/ call.qos \notin 0..2)
    => (/\ result.status = "raise"
        /\ result.exc = "MMQTTException"
        /\ wr = <<>>
        /\ is_connected = pre.is_connected
        /\ pid = pre.pid
        /\ method_handlers = pre.method_handlers)

\* a publish("a", "hi" or 42, QoS 1) call was made on a session that reported
\* Connected over an open transport with nothing unread
QoS1PublishCalled ==
    /\ call.name = "publish"
    /\ call.topic = TopicA /\ call.msg \in {MsgHi, Msg42} /\ call.qos = 1
    /\ pre.is_connected /\ pre.sock = "open" /\ pre.rx = <<>>

\* the bytes of a whole QoS 1 PUBLISH for the call: header, remaining
\* length, topic, packet id, payload
QoS1PublishLen == 2 + (2 + Len(call.topic)) + 2 + Len(msg_bytes(call.msg))

\* C11: publish(topic, payload, qos=1) returns success only after a PUBACK
\* was read, and does not end in any other way before it has started to read
\* the transport for that PUBACK (a PUBACK with another packet id leaves it
\* waiting).
C11_Qos1PublishWaitsForPuback ==
    QoS1PublishCalled
    => (/\ result.status = "ok" => (reads > 0 /\ \E i \in 1..Len(call.inb) : call.inb[i] = 64)
        /\ result.status # "ok" => (result.status = "hang" \/ reads > 0))

\* C12: publish(topic, payload, qos=1) on a Connected session whose
\* transport answers a PUBLISH with a PUBACK of the same packet id returns
\* success (the transport has nothing to answer while no whole PUBLISH was
\* written).
C12_Qos1PublishReturns ==
    (/\ QoS1PublishCalled
     /\ \/ Len(wr) < QoS1PublishLen
        \/ Len(call.inb) = 4 /\ call.inb[1] = 64 /\ call.inb[2] = 2)
    => result.status = "ok"

\* C13: publish(qos=1) with "a" registered, on a transport that answers a
\* PUBLISH with an inbound PUBLISH on "a" followed by the PUBACK, delivers
\* the inbound message to the handler of "a" and then returns success.
C13_Qos1PublishHandlesOtherPackets ==
    (/\ QoS1PublishCalled
     /\ TopicA \in DOMAIN pre.method_handlers
     /\ \/ Len(wr) < QoS1PublishLen
        \/ /\ Len(call.inb) = 11
           /\ SubSeq(call.inb, 1, 7) = <<48, 5, 0, 1, 97, 104, 105>>
           /\ call.inb[8] = 64)
    => (/\ result.status = "ok"
        /\ Len(wr) < QoS1PublishLen
           \/ calls = <<<<pre.method_handlers[TopicA], TopicA, <<104, 105>>>>>>)

\* f is one whole inbound PUBLISH with QoS 1, not retained, not a duplicate:
\* header 0x32, a one-byte remaining length that covers f, a topic and a
\* packet id inside it
IsQoS1Publish(f) ==
    /\ Len(f) >= 6
    /\ f[1] = 50
    /\ f[2] = Len(f) - 2
    /\ f[3] = 0
    /\ 4 + f[4] + 2 <= Len(f)

\* C14: when wait_for_msg() processes an inbound QoS 1 PUBLISH, exactly one
\* PUBACK with the packet id of that PUBLISH is written, and nothing else,
\* whether or not its topic has a handler.
C14_OnePubackPerQoS1Publish ==
    (/\ call.name = "wait_for_msg"
     /\ pre.is_connected /\ pre.sock = "open" /\ pre.rx = <<>>
     /\ IsQoS1Publish(call.inb))
    => wr = <<64, 2, call.inb[4 + call.inb[4] + 1], call.inb[4 + call.inb[4] + 2]>>

\* f is one whole inbound PUBLISH with QoS 0 or 1 (header 0x30 or 0x32)
\* and a one-byte remaining length
IsPublish(f) ==
    /\ Len(f) >= 4
    /\ f[1] \in {48, 50}
    /\ f[2] = Len(f) - 2
    /\ f[3] = 0
    /\ 4 + f[4] + (IF f[1] = 50 THEN 2 ELSE 0) <= Len(f)

PublishTopic(f) == SubSeq(f, 5, 4 + f[4])

PublishPayload(f) == SubSeq(f, 4 + f[4] + (IF f[1] = 50 THEN 2 ELSE 0) + 1, Len(f))

\* C15: for an inbound PUBLISH with topic t and payload p, wait_for_msg()
\* returns without error; it invokes a handler, once, with (t, p), exactly
\* when t is a topic of the registry, and that handler is the one registered
\* for t.
C15_DispatchToRegisteredHandler ==
    (/\ call.name = "wait_for_msg"
     /\ pre.is_connected /\ pre.sock = "open" /\ pre.rx = <<>>
     /\ IsPublish(call.inb))
    => (/\ result.status = "ok"
        /\ calls = IF PublishTopic(call.inb) \in DOMAIN pre.method_handlers
                   THEN <<<<pre.method_handlers[PublishTopic(call.inb)],
                            PublishTopic(call.inb), PublishPayload(call.inb)>>>>
                   ELSE <<>>)

\* C16: subscribe() on a Connected session whose transport never delivers
\* a byte terminates with an error (the acknowledgement timeout); it does
\* not wait forever.
C16_SubscribeTimesOut ==
    (/\ call.name = "subscribe"
     /\ pre.is_connected /\ pre.sock = "open" /\ pre.rx = <<>>
     /\ call.topic = TopicA /\ call.handler = "None" /\ call.qos \in 0..2
     /\ TopicA \notin DOMAIN pre.method_handlers
     /\ call.inb = <<>>)
    => result.status = "raise"

\* C17: unsubscribe(topic) for a registered topic on a Connected session,
\* answered by an UNSUBACK with the packet id of the request, returns, and
\* the topic is no longer in the registry.
C17_UnsubscribeReturnsAndDeregisters ==
    (/\ call.name = "unsubscribe"
     /\ pre.is_connected /\ pre.sock = "open" /\ pre.rx = <<>>
     /\ call.topic = TopicA
     /\ TopicA \in DOMAIN pre.method_handlers
     /\ call.inb = <<176, 2>> \o PackH(pre.pid + PID_STRIDE))
    => (/\ result.status = "ok"
        /\ TopicA \notin DOMAIN method_handlers)

\* C18: every subscribe() or unsubscribe() of a topic that takes a packet
\* identifier on an open transport writes its request, and the identifier
\* written in the request is in 1..65535.
C18_PacketIdInRange ==
    (/\ call.name \in {"subscribe", "unsubscribe"}
     /\ call.topic # NoneVal
     /\ pre.sock = "open"
     /\ pid # pre.pid)
    => (/\ Len(wr) >= 4
        /\ UnpackH(<<wr[3], wr[4]>>) \in 1..65535)

\* C19: during reconnect(retries=N) the hard-reset hook is invoked, and the
\* count of consecutive transport failures set back to 0, when that count
\* reaches N: the count never stands at N or above.
C19_ResetAfterNFailures ==
    call.name = "reconnect" => retries < call.retries

\* C20: a round of reconnect() whose connect attempt reads a CONNACK
\* 0x20 0x02 with return code 1..5 ends reconnect(): the connection-refused
\* error reaches the caller, no further attempt is made, the hard-reset hook
\* is not invoked and is_connected() is false.
C20_RefusalEndsReconnect ==
    [][(/\ pc = "reconnect"
        /\ Len(call'.inb) >= 4
        /\ call'.inb[1] = 32 /\ call'.inb[2] = 2 /\ call'.inb[4] \in 1..5)
       => (/\ pc' = "idle"
           /\ result'.status = "raise"
           /\ result'.exc = "MMQTTException"
           /\ result'.why = "Connection Refused"
           /\ resets' = resets
           /\ retries' = retries
           /\ ~is_connected')]_vars

\* reconnect() has ended with the refusal of an attempt that followed a
\* failed one
C20_Witness ==
    /\ call.name = "reconnect"
    /\ pc = "idle"
    /\ retries > 0
    /\ Len(call.inb) >= 4
    /\ call.inb[4] \in 1..5
    /\ result.status = "raise"
    /\ result.why = "Connection Refused"
    /\ ~is_connected

\* C21: reconnect(resub_topics=True) that found the session Disconnected
\* with registered topics, and whose connection the broker accepted, returns
\* with the session Connected and the registry holding the topics it held
\* before the call.
C21_ResubscribeKeepsRegistry ==
    (/\ call.name = "reconnect"
     /\ call.resub_topics
     /\ pc = "idle"
     /\ ~pre.is_connected
     /\ DOMAIN pre.method_handlers # {}
     /\ call.inb = <<32, 2, 0, 0>>)
    => (/\ result.status = "ok"
        /\ is_connected
        /\ DOMAIN method_handlers = DOMAIN pre.method_handlers
        /\ feed_keys = pre.feed_keys)

\* C22: publish(qos=2) ends with the unsupported-QoS error and has written
\* nothing to the transport.
C22_Qos2PublishRejectedBeforeWrite ==
    (call.name = "publish" /\ call.qos = 2 /\ pre.sock = "open")
    => (/\ result.status = "raise"
        /\ result.exc \in {"NotImplementedError", "MMQTTException"}
        /\ wr = <<>>)

\* C26: the first byte publish() writes is 0x30 | (qos << 1) | retain of the
\* call's own arguments.
C26_PublishHeaderFromOwnArguments ==
    (call.name = "publish" /\ Len(wr) >= 1)
    => wr[1] = BitOr(48, BitOr(call.qos * 2, IF call.retain THEN 1 ELSE 0))

\* C23: once the mqtt_msg setter has stored a limit L, the mqtt_msg getter
\* reports L, and publish() of a payload longer than L fails and writes
\* nothing.
C23_SizeLimitEnforced ==
    MQTT__msg_size_lim # <<>>
    => (/\ call.name = "mqtt_msg" => result.val = MQTT__msg_size_lim[1]
        /\ (/\ call.name = "publish"
            /\ call.topic = TopicA
            /\ call.msg.type \in {"int", "str"}
            /\ Len(msg_bytes(call.msg)) > MQTT__msg_size_lim[1])
           => (result.status = "raise" /\ wr = <<>>))

\* C24: a call on a Connected session that ends because a frame it read is
\* malformed or unexpected (a failed assertion on the frame) leaves the
\* session Disconnected.
C24_ProtocolErrorDisconnects ==
    (/\ call.name \in {"subscribe", "wait_for_msg"}
     /\ pre.is_connected
     /\ result.status = "raise"
     /\ result.exc = "AssertionError")
    => ~is_connected

\* C25: a subscribe() that read a SUBACK whose packet-id bytes differ from
\* those of the SUBSCRIBE it wrote does not return success and does not
\* leave its topic registered.
C25_ForeignSubackRejected ==
    (/\ call.name = "subscribe"
     /\ call.topic \notin DOMAIN pre.method_handlers
     /\ Len(wr) >= 4
     /\ Len(call.inb) = 5
     /\ call.inb[1] = 144
     /\ <<call.inb[3], call.inb[4]>> # <<wr[3], wr[4]>>)
    => (/\ result.status # "ok"
        /\ call.topic \notin DOMAIN method_handlers)

\* C27: a ping(), wait_for_msg() or subscribe() that returned after one
\* packet arrived on an empty inbound stream has consumed that packet whole
\* or not at all.
C27_WholePacketsConsumed ==
    (/\ call.name \in {"ping", "wait_for_msg", "subscribe"}
     /\ result.status = "ok"
     /\ pre.rx = <<>>
     /\ call.inb # <<>>)
    => rx \in {<<>>, call.inb}

\* C28: for every n in 0..268435455 the encoding loop of publish() and of
\* connect() produces 1 to 4 length bytes and _recv_len decodes them to n;
\* for 268435456 the loop fails.
C28_LengthRoundTrip ==
    call.name \in LengthBuffers
    => IF call.msg_size <= MQTT_MSG_MAX_SZ
       THEN /\ result.status # "raise"
            /\ Len(wr) \in 1..4
            /\ (pc = "idle" => result.val = call.msg_size)
       ELSE result.status = "raise"

\* C29: _recv_len reads at most 4 bytes, and fails when the first four all
\* have the continuation bit set.
C29_LengthDecodeStopsAtFourBytes ==
    call.name = "_recv_len"
    => (/\ reads <= 4
        /\ (/\ Len(call.inb) >= 4
            /\ \A i \in 1..4 : call.inb[i] >= 128)
           => result.status = "raise")

====
